---------------------------- MODULE Spec2Model ----------------------------
(***************************************************************************)
(* Verification model of the ordinary-projection lifting code of           *)
(* roed314/OMS:                                                            *)
(*   - the Pollack-Stevens eigensymbol lift                                *)
(*     (sage/modular/pollack_stevens/modsym.py: lift, _find_aq,            *)
(*      _find_extraprec, _lift_to_OMS_eigen, specialize), and              *)
(*   - the U_p operator and improve() of p-adic automorphic forms          *)
(*     (sage/modular/btquotients/pautomorphicform.py).                     *)
(* Spec   is the state machine of the Pollack-Stevens lift.                *)
(* SpecUp is the state machine of _apply_Up_operator / improve.            *)
(***************************************************************************)
EXTENDS Integers, Sequences, FiniteSets, TLC

(***************************************************************************)
(* Bounds of the model.                                                    *)
(***************************************************************************)
\* largest number of moments M asked of lift()
MaxM == 3
\* largest weight k of the classical symbol
MaxWeight == 1
\* largest exponent e of the Eisenstein defect p^e in the eigenvalue systems
MaxLoss == 2
\* len(self._list): the number of indices of a p-adic automorphic form
NumIdx == 2
\* the number of moments of a value of a form (the depth of the module)
Depth == 4
\* largest precision self._prec of a space of p-adic automorphic forms
MaxPrec == 2
\* moments are resolved modulo p^(prec + Slack): relative precision prec on
\* top of valuations up to Slack
Slack == 2
\* largest number of pieces of the U_p double-coset data
MaxPieces == 2
\* largest number of improve() calls made on the form
MaxImproves == 2
\* the largest twist exponent delta passed to coleman()
MaxDelta == 2
\* the largest number of open balls in a covering
MaxBalls == 3
\* the largest number of edges nE = len(self._E)
MaxEdges == 2
\* the number of generators of the source of a modular symbol
MaxGens == 2
\* the largest number of derivative() / modular_form() calls on the form
MaxDerivCalls == 2
\* the largest level N of a monoid Sigma0(N)
MaxSigmaLevel == 4
\* the largest number of products taken in Sigma0(N)
MaxProducts == 1

(***************************************************************************)
(* Program constants.                                                      *)
(***************************************************************************)
\* sage.rings.infinity.infinity: larger than every integer the model meets
Infinity == 1000000000
\* the bound of the prime search of _find_aq
PrimeBound == 50
\* the first prime tried by _find_aq
FirstPrime == 2

(***************************************************************************)
(* Integer helpers (Sage's Integer methods used by the code).              *)
(***************************************************************************)
Abs(n) == IF n < 0 THEN -n ELSE n

Max(a, b) == IF a >= b THEN a ELSE b

RECURSIVE Pow(_, _)
Pow(b, e) == IF e = 0 THEN 1 ELSE b * Pow(b, e - 1)

RECURSIVE Gcd(_, _)
Gcd(a, b) == IF b = 0 THEN a ELSE Gcd(b, a % b)

IsPrime(n) == n >= 2 /\ \A d \in 2..(n - 1) : d * d > n \/ n % d # 0

RECURSIVE next_prime(_)
next_prime(n) == IF IsPrime(n + 1) THEN n + 1 ELSE next_prime(n + 1)

\* Integer.valuation(p): the exponent of p in n, +Infinity for n = 0
RECURSIVE valuation(_, _)
valuation(n, pp) ==
    IF n = 0 THEN Infinity
    ELSE IF n % pp # 0 THEN 0
    ELSE 1 + valuation(n \div pp, pp)

\* Integer.exact_log(p): the largest e with p^e <= n (n >= 1)
RECURSIVE exact_log(_, _)
exact_log(n, pp) == IF n < pp THEN 0 ELSE 1 + exact_log(n \div pp, pp)

(***************************************************************************)
(* Rational numbers as normalised pairs <<numerator, denominator>>.        *)
(***************************************************************************)
Rat(n, d) ==
    LET g == Gcd(Abs(n), Abs(d))
        sgn == IF d < 0 THEN -1 ELSE 1
    IN  IF n = 0 THEN <<0, 1>> ELSE <<sgn * (n \div g), sgn * (d \div g)>>

RZero == <<0, 1>>
ROne == <<1, 1>>
RMul(r, t) == Rat(r[1] * t[1], r[2] * t[2])
RSub(r, t) == Rat(r[1] * t[2] - t[1] * r[2], r[2] * t[2])
RInt(n) == <<n, 1>>
\* ~x: the inverse of a nonzero integer
RInv(n) == Rat(1, n)

(***************************************************************************)
(* State.                                                                  *)
(***************************************************************************)
VARIABLES
    \* ---- the classical eigensymbol self and the arguments of lift() ----
    p,          \* the prime
    N,          \* self.parent().level()
    k,          \* self.parent().weight()
    M,          \* the number of moments asked for
    sys,        \* the system of Hecke eigenvalues of self away from p
    alpha,      \* the U_p-eigenvalue of self
    \* ---- locals of lift / _find_aq / _find_extraprec / _lift_to_OMS_eigen ----
    pc,         \* position in the code
    q, aq, eisenloss,
    newM, eplog, s,
    Phi, Psi, attempts,
    result,     \* the returned overconvergent symbol (NoSymbol before)
    err,        \* the exception raised ("" when none)
    log,        \* the operations performed on overconvergent symbols, in order
    \* ---- pAutomorphicForms: the form, the U_p data and the locals of improve ----
    value,      \* self._value of the form
    HeckeData,  \* self._source._get_Up_data()
    n,          \* self._n, the weight of the coefficient module
    prec,       \* self._prec, the precision of the space
    upc,        \* position in improve()
    improves,   \* the number of improve() calls made on the form
    h2, ii, current_val, old_val, init_val,
    Tf,         \* the form returned by the last _apply_Up_operator call
    upArg,      \* the arguments (f, scale) of that call
    lifted,     \* pAutomorphicForms.lift: the cocycle f lifted and the form returned
    \* ---- pAutomorphicFormElement.coleman ----
    col,        \* the arguments, locals and position of a coleman() call
    \* ---- Hecke, Atkin-Lehner and U_p operators: the accumulation loop ----
    hc,         \* the operand, the double-coset data, the locals and position
    \* ---- arithmetic and evaluation of p-adic automorphic forms ----
    res,        \* the operation last called on the form and what it returned
    \* ---- PSModularSymbolElement: _get_prime, plus/minus parts, Tq_eigenvalue ----
    ms,         \* the call made on the modular symbol, its locals and its outcome
    \* ---- pAutomorphicFormElement.derivative / modular_form ----
    dv,         \* self._cached_values and the last derivative() call
    \* ---- the monoid Sigma0(N) (sigma0.py) ----
    sg          \* the monoid created and the element last built in it

liftVars == <<p, N, k, M, sys, alpha, pc, q, aq, eisenloss, newM, eplog, s,
              Phi, Psi, attempts, result, err, log>>
upVars == <<value, HeckeData, n, prec, upc, improves, h2, ii, current_val,
            old_val, init_val, Tf, upArg, lifted>>
auxVars == <<col, hc, res, ms, dv, sg>>
vars == <<liftVars, upVars, auxVars>>

(***************************************************************************)
(* The classical eigensymbol.  Its T_ell-eigenvalue is ell^(k+1)+1+delta,  *)
(* where ell^(k+1)+1 is the Eisenstein eigenvalue.  The systems modelled:  *)
(* delta = 0 below the prime sys.good (self looks Eisenstein there),       *)
(* delta = p^sys.e at sys.good, delta = 1 above it.                        *)
(***************************************************************************)
Primes == {2, 3}
Levels == {6, 11}
GoodPrimes == {2, 5, 47, 53}
Alphas == {1, 2, 3}
SymbolValuations == {-1, 0}

NoSymbol == [none |-> TRUE]

\* the messages of the exceptions raised
ErrSmallM == "M must be at least 2"
ErrEisenstein == "The symbol appears to be eisenstein -- not implemented yet"
ErrNonOrdinary == "Lifting non-ordinary eigensymbols not implemented (issue #20)"
ErrPrecision == "Precision problem in lifting -- applied U_p many times without success"

EisensteinEigenvalue(ell) == IF ell = p THEN 1 ELSE Pow(ell, k + 1) + 1

Delta(ell) ==
    IF ell < sys.good THEN 0
    ELSE IF ell = sys.good THEN Pow(p, sys.e)
    ELSE 1

\* self.Tq_eigenvalue(ell) of the classical eigensymbol
Tq_eigenvalue(ell) ==
    IF ell = p THEN alpha ELSE Pow(ell, k + 1) + 1 + Delta(ell)

(***************************************************************************)
(* Overconvergent modular symbols at working precision W (= nmom moments). *)
(* A symbol is written c*F + b*E + n, where F is the U_p-eigenlift of      *)
(* self, E the Eisenstein error of the naive lift (T_ell-eigenvalue        *)
(* ell^(k+1)+1, U_p-eigenvalue 1) and n lies in the part on which U_p is   *)
(* topologically nilpotent:                                                *)
(*   fc, ec  the rational coefficients c and b,                            *)
(*   nv      the valuation of n (nv = nmom: n is zero to the precision),   *)
(*   gen     the number of operators applied to a nonzero n (two nonzero   *)
(*           n compare equal only when they are the same iterate).         *)
(***************************************************************************)
Symbol(c, b, v, g, W) ==
    [fc |-> c, ec |-> b, nv |-> IF v >= W THEN W ELSE v,
     gen |-> IF v >= W THEN 0 ELSE g, nmom |-> W]

\* the possible outputs of self._lift_to_OMS(p, W, new_base_ring, check):
\* a lift of self up to an Eisenstein error
NaiveLifts(W) ==
    { Symbol(ROne, RInt(b), v, 0, W) : b \in {0, 1}, v \in {0, W} }

\* the valuations the nilpotent part of S may have after a Hecke operator:
\* never smaller, and zero stays zero
NilAfter(S) == { v \in {S.nv, S.nv + 1, S.nmom} : v <= S.nmom }

\* the possible values of S.hecke(ell)
hecke(S, ell) ==
    { Symbol(RMul(RInt(Tq_eigenvalue(ell)), S.fc),
             RMul(RInt(EisensteinEigenvalue(ell)), S.ec),
             v, S.gen + 1, S.nmom) : v \in NilAfter(S) }

\* c * S for a rational scalar c
SMul(c, S) == [S EXCEPT !.fc = RMul(c, S.fc), !.ec = RMul(c, S.ec)]

\* A - B, with the nilpotent part of B (B is a Hecke image of A)
SSub(A, B) == [B EXCEPT !.fc = RSub(A.fc, B.fc), !.ec = RSub(A.ec, B.ec)]

\* PSModularSymbolElement.__cmp__: the values on all generators agree
SymEq(A, B) == A = B

\* PSModularSymbolElement_dist.reduce_precision(M)
reduce_precision(S, m) == Symbol(S.fc, S.ec, S.nv, S.gen, m)

\* PSModularSymbolElement_dist.specialize(): the classical symbol under S
specialize(S) == [fc |-> S.fc, ec |-> S.ec]

\* the classical symbol self
ClassicalSelf == [fc |-> ROne, ec |-> RZero]

(***************************************************************************)
(* Initial states of the lift: lift(p, M, algorithm='stevens',             *)
(* eigensymbol=True) is about to be called on a classical eigensymbol.     *)
(***************************************************************************)
InitLift ==
    /\ p \in Primes
    /\ N \in Levels
    /\ k \in 0..MaxWeight
    /\ M \in 1..MaxM
    /\ sys \in [good : GoodPrimes, e : 0..MaxLoss]
    /\ alpha \in Alphas
    /\ pc = "lift"
    /\ q = 0 /\ aq = 0 /\ eisenloss = 0
    /\ newM = 0 /\ eplog = 0 /\ s = 0
    /\ Phi = NoSymbol /\ Psi = NoSymbol /\ attempts = 0
    /\ result = NoSymbol
    /\ err = ""
    /\ log = <<>>

inputVars == <<p, N, k, M, sys, alpha>>

(***************************************************************************)
(* lift (modsym.py 1008-1045) with algorithm='stevens', eigensymbol=True.  *)
(***************************************************************************)
Lift ==
    /\ pc = "lift"
    /\ IF M <= 1
       THEN /\ pc' = "raised"
            /\ err' = ErrSmallM
       ELSE /\ pc' = "find_aq"
            /\ err' = err
    /\ UNCHANGED <<inputVars, q, aq, eisenloss, newM, eplog, s, Phi, Psi,
                   attempts, result, log, upVars, auxVars>>

(***************************************************************************)
(* _find_aq (modsym.py 1300-1314).                                         *)
(***************************************************************************)
\* the Eisenstein loss computed for the prime qq with eigenvalue a
EisenLossFirst(qq, a) == valuation(a - Pow(qq, k + 1) - 1, p)

EisenLossNext(qq, a) ==
    IF qq # p THEN valuation(a - Pow(qq, k + 1) - 1, p)
    ELSE valuation(a - 1, p)

\* mutant: primes dividing the level are not skipped
FindAqContinueNoLevel(qq, loss) ==
    ((qq = p) \/ (loss >= M)) /\ (qq < PrimeBound)

\* the condition of the while loop, line 1305
FindAqContinue(qq, loss) ==
    ((qq = p) \/ (N % qq = 0) \/ (loss >= M)) /\ (qq < PrimeBound)

\* mutant: the failure test uses a larger bound than the loop
FindAqFailedLate(qq) == qq >= 2 * PrimeBound

\* line 1312
FindAqFailed(qq) == qq >= PrimeBound

FindAqInit ==
    /\ pc = "find_aq"
    /\ q' = FirstPrime
    /\ aq' = Tq_eigenvalue(FirstPrime)
    /\ eisenloss' = EisenLossFirst(FirstPrime, Tq_eigenvalue(FirstPrime))
    /\ pc' = "find_aq_loop"
    /\ UNCHANGED <<inputVars, newM, eplog, s, Phi, Psi, attempts, result, err,
                   log, upVars, auxVars>>

FindAqNext ==
    /\ pc = "find_aq_loop"
    /\ FindAqContinue(q, eisenloss)
    /\ LET qq == next_prime(q)
       IN  /\ q' = qq
           /\ aq' = Tq_eigenvalue(qq)
           /\ eisenloss' = EisenLossNext(qq, Tq_eigenvalue(qq))
    /\ UNCHANGED <<inputVars, pc, newM, eplog, s, Phi, Psi, attempts, result,
                   err, log, upVars, auxVars>>

FindAqReturn ==
    /\ pc = "find_aq_loop"
    /\ ~FindAqContinue(q, eisenloss)
    /\ IF FindAqFailed(q)
       THEN /\ pc' = "raised"
            /\ err' = ErrEisenstein
       ELSE /\ pc' = "find_extraprec"
            /\ err' = err
    /\ UNCHANGED <<inputVars, q, aq, eisenloss, newM, eplog, s, Phi, Psi,
                   attempts, result, log, upVars, auxVars>>

(***************************************************************************)
(* _find_extraprec (modsym.py 1316-1330), after _find_aq has returned.     *)
(***************************************************************************)
\* lines 1320-1322: the allowance for the denominators of the difference
\* equation, for newM0 = M + eisenloss
RECURSIVE EplogLoop(_, _)
EplogLoop(newM0, ep) ==
    IF ep < exact_log(newM0 + ep, p)
    THEN EplogLoop(newM0, exact_log(newM0 + ep, p))
    ELSE ep

Eplog(newM0) == EplogLoop(newM0, exact_log(newM0 - 1, p))

\* mutant: the valuation is added with its sign
SelfDenominatorsSigned(sv) == IF sv < 0 THEN sv ELSE 0

\* lines 1327-1329: the allowance for the denominators of self
SelfDenominators(sv) == IF sv < 0 THEN -sv ELSE 0

FindExtraprec ==
    /\ pc = "find_extraprec"
    /\ \E sv \in SymbolValuations :
         /\ s' = sv
         /\ eplog' = Eplog(M + eisenloss)
         /\ newM' = (M + eisenloss) + Eplog(M + eisenloss) + SelfDenominators(sv)
    /\ pc' = "eigen"
    /\ UNCHANGED <<inputVars, q, aq, eisenloss, Phi, Psi, attempts, result,
                   err, log, upVars, auxVars>>

(***************************************************************************)
(* _lift_to_OMS_eigen (modsym.py 1366-1403), called by lift with           *)
(* ap = alpha and the newM, eisenloss, q, aq of _find_extraprec.           *)
(***************************************************************************)
\* mutant: only valuations above 1 are refused
NonOrdinaryAboveOne(ap) == valuation(ap, p) > 1

\* line 1366: new_base_ring(ap).valuation() > 0
NonOrdinary(ap) == valuation(ap, p) > 0

\* apinv * S.hecke(p), lines 1379, 1392 and 1397
ApinvUp(S) == { SMul(RInv(alpha), T) : T \in hecke(S, p) }

\* line 1387: (q^(k+1) + 1) * S - S.hecke(q)
EisensteinKill(S) ==
    { SSub(SMul(RInt(Pow(q, k + 1) + 1), S), T) : T \in hecke(S, q) }

\* mutant: the loop makes one pass whether or not the iterates agree
LoopGuardCountOnly == attempts < 1

\* mutant: the cap is tested with <=
LoopGuardOffByOne == ~SymEq(Phi, Psi) /\ (attempts <= 2 * newM)

\* the condition of the while loop, line 1394
LoopGuard == ~SymEq(Phi, Psi) /\ (attempts < 2 * newM)

\* line 1399
CapReached == attempts >= 2 * newM

\* mutant: the inverse is forgotten
RescaleNoInverse(S) == SMul(RInt(Pow(q, k + 1) + 1 - aq), S)

\* line 1401: ~(q^(k+1) + 1 - aq) * S
Rescale(S) == SMul(RInv(Pow(q, k + 1) + 1 - aq), S)

EigenCheck ==
    /\ pc = "eigen"
    /\ IF NonOrdinary(alpha)
       THEN /\ pc' = "raised"
            /\ err' = ErrNonOrdinary
       ELSE /\ pc' = "naive"
            /\ err' = err
    /\ UNCHANGED <<inputVars, q, aq, eisenloss, newM, eplog, s, Phi, Psi,
                   attempts, result, log, upVars, auxVars>>

NaiveLift ==
    /\ pc = "naive"
    /\ Phi' \in NaiveLifts(newM)
    /\ log' = Append(log, "naive")
    /\ pc' = "hecke"
    /\ UNCHANGED <<inputVars, q, aq, eisenloss, newM, eplog, s, Psi, attempts,
                   result, err, upVars, auxVars>>

ApplyHecke ==
    /\ pc = "hecke"
    /\ Phi' \in ApinvUp(Phi)
    /\ log' = Append(log, "Up")
    /\ pc' = "kill"
    /\ UNCHANGED <<inputVars, q, aq, eisenloss, newM, eplog, s, Psi, attempts,
                   result, err, upVars, auxVars>>

KillEisenstein ==
    /\ pc = "kill"
    /\ Phi' \in EisensteinKill(Phi)
    /\ log' = Append(log, "Tq")
    /\ pc' = "iterate"
    /\ UNCHANGED <<inputVars, q, aq, eisenloss, newM, eplog, s, Psi, attempts,
                   result, err, upVars, auxVars>>

IterateInit ==
    /\ pc = "iterate"
    /\ Psi' \in ApinvUp(Phi)
    /\ attempts' = 0
    /\ log' = Append(log, "Up")
    /\ pc' = "loop"
    /\ UNCHANGED <<inputVars, q, aq, eisenloss, newM, eplog, s, Phi, result,
                   err, upVars, auxVars>>

\* mutant: the Eisenstein kill is repeated inside the loop
LoopPassKilling ==
    /\ pc = "loop"
    /\ LoopGuard
    /\ Phi' = Psi
    /\ \E T \in EisensteinKill(Psi) : Psi' \in ApinvUp(T)
    /\ attempts' = attempts + 1
    /\ log' = log \o <<"Tq", "Up">>
    /\ UNCHANGED <<inputVars, pc, q, aq, eisenloss, newM, eplog, s, result,
                   err, upVars, auxVars>>

LoopPass ==
    /\ pc = "loop"
    /\ LoopGuard
    /\ Phi' = Psi
    /\ Psi' \in ApinvUp(Psi)
    /\ attempts' = attempts + 1
    /\ log' = Append(log, "Up")
    /\ UNCHANGED <<inputVars, pc, q, aq, eisenloss, newM, eplog, s, result,
                   err, upVars, auxVars>>

LoopExit ==
    /\ pc = "loop"
    /\ ~LoopGuard
    /\ IF CapReached
       THEN /\ pc' = "raised"
            /\ err' = ErrPrecision
            /\ UNCHANGED <<Phi, result, log>>
       ELSE /\ Phi' = Rescale(Phi)
            /\ result' = reduce_precision(Rescale(Phi), M)
            /\ log' = log \o <<"rescale", "reduce">>
            /\ pc' = "returned"
            /\ err' = err
    /\ UNCHANGED <<inputVars, q, aq, eisenloss, newM, eplog, s, Psi, attempts,
                   upVars, auxVars>>

(***************************************************************************)
(* p-adic automorphic forms (pautomorphicform.py).  A form is its _value:  *)
(* for each index 1..NumIdx a distribution, i.e. Depth moments modulo      *)
(* p^(prec + Slack).  Moment i of the code is position i + 1 here.         *)
(***************************************************************************)
Modulus == Pow(p, prec + Slack)

RECURSIVE SumSeq(_)
SumSeq(sq) == IF sq = <<>> THEN 0 ELSE Head(sq) + SumSeq(Tail(sq))

RECURSIVE Binom(_, _)
Binom(i, j) ==
    IF j = 0 \/ j = i THEN 1 ELSE Binom(i - 1, j - 1) + Binom(i - 1, j)

ZeroDist == [i \in 1..Depth |-> 0]
DistAdd(v, w) == [i \in 1..Depth |-> (v[i] + w[i]) % Modulus]
DistSub(v, w) == [i \in 1..Depth |-> (v[i] - w[i]) % Modulus]
DistScale(c, v) == [i \in 1..Depth |-> (c * v[i]) % Modulus]

\* v.r_act_by(r) for r acting as the matrix [[b, a], [0, 1]]:
\* moment i of the image is sum_j binomial(i, j) a^(i-j) b^j v_j
r_act_by(v, r) ==
    [i \in 1..Depth |->
        SumSeq([j \in 1..i |->
            Binom(i - 1, j - 1) * Pow(r.a, i - j) * Pow(r.b, j - 1) * v[j]])
        % Modulus]

\* min(...) of a non-empty set of extended integers
SetMin(S) == CHOOSE x \in S : \A y \in S : x <= y

\* the valuation of a distribution: the least valuation of its moments
DistValuation(v) == SetMin({valuation(v[i], p) : i \in 1..Depth})

ZeroForm == [e \in 1..NumIdx |-> ZeroDist]

\* pAutomorphicFormElement._sub_, lines 1502-1503
FormSub(F, G) == [e \in 1..NumIdx |-> DistSub(F[e], G[e])]

\* pAutomorphicFormElement.valuation, lines 1616-1619
FormValuation(F) ==
    IF F = ZeroForm THEN Infinity
    ELSE SetMin({DistValuation(F[e]) : e \in 1..NumIdx})

\* a - b in Sage's extended integers ("error": Infinity - Infinity raises)
ExtSub(a, b) ==
    IF a = Infinity /\ b = Infinity THEN "error"
    ELSE IF a = Infinity THEN Infinity
    ELSE IF b = Infinity THEN -Infinity
    ELSE a - b

(***************************************************************************)
(* _apply_Up_operator (pautomorphicform.py 2406-2426).                     *)
(***************************************************************************)
\* lines 2407-2410
Factor(scale) == IF scale THEN 1 ELSE Pow(p, n \div 2)

\* lines 2413-2418: the sum over the pieces d of HeckeData of
\* f._value[u.label].r_act_by(r), u = d[1][jj]
RECURSIVE SumPieces(_, _, _)
SumPieces(f, jj, d) ==
    IF d = 0 THEN ZeroDist
    ELSE DistAdd(SumPieces(f, jj, d - 1),
                 r_act_by(f[HeckeData[d][jj].label], HeckeData[d][jj]))

\* mutant: the overwrite stops one moment short (range(self._n))
FixLowdegShort(tmp, fj) ==
    [i \in 1..Depth |-> IF i <= n THEN fj[i] ELSE tmp[i]]

\* mutant: the low moments are not restored
FixLowdegNone(tmp, fj) == tmp

\* lines 2422-2424: the moments 0..n of tmp are overwritten with those of
\* f._value[jj]
FixLowdeg(tmp, fj) ==
    [i \in 1..Depth |-> IF i <= n + 1 THEN fj[i] ELSE tmp[i]]

\* lines 2412-2426
apply_Up_operator(f, scale) ==
    [jj \in 1..NumIdx |->
        FixLowdeg(DistScale(Factor(scale), SumPieces(f, jj, Len(HeckeData))),
                  f[jj])]

\* mutant: the overwrite is made only when fix_lowdeg_terms is True
ApplyUpHonoringFlag(f, scale, fix_lowdeg_terms) ==
    IF fix_lowdeg_terms THEN apply_Up_operator(f, scale)
    ELSE [jj \in 1..NumIdx |->
            DistScale(Factor(scale), SumPieces(f, jj, Len(HeckeData)))]

\* _apply_Up_operator with its third argument, line 2389: the body (lines
\* 2412-2426) never reads fix_lowdeg_terms
apply_Up_operator_kw(f, scale, fix_lowdeg_terms) ==
    apply_Up_operator(f, scale)

(***************************************************************************)
(* Initial states of a space of p-adic automorphic forms with one form.    *)
(***************************************************************************)
UpPrimes == {2, 3}
Weights == {0, 2}

\* the values a form starts with
SeedDists ==
    { ZeroDist,
      [i \in 1..Depth |-> IF i = 1 THEN 1 ELSE 0],
      [i \in 1..Depth |-> 1],
      [i \in 1..Depth |-> IF i = 1 THEN p ELSE 0] }

\* the U_p double-coset data: np pieces; piece d sends index jj to the label
\* jj + sh * d (cyclically) and acts by the matrix [[b, d - 1], [0, 1]]
UpDataSets ==
    { [d \in 1..np |->
         [jj \in 1..NumIdx |->
            [label |-> ((jj - 1 + sh * d) % NumIdx) + 1, a |-> d - 1, b |-> bb]]]
      : np \in 1..MaxPieces, sh \in 0..1, bb \in {1, p} }

NoCall == [f |-> ZeroForm, scale |-> FALSE, called |-> FALSE]

\* no form has been built by pAutomorphicForms.lift
NoLift == [f |-> <<>>, F |-> <<>>]

\* the values of a classical cocycle: the moments 0..n at every index
Classical(F) == [e \in 1..NumIdx |-> [i \in 1..(n + 1) |-> F[e][i]]]

\* lines 1395-1418, 2341: the form element_class(self, f) built from the
\* classical values f: the moments above n are zero
NaiveForm(f) ==
    [e \in 1..NumIdx |->
        [i \in 1..Depth |-> IF i <= n + 1 THEN f[e][i] ELSE 0]]

\* the form is the naive lift of a classical cocycle
IsNaiveForm(F) == F = NaiveForm(Classical(F))

InitUp ==
    /\ p \in UpPrimes
    /\ n \in Weights
    /\ prec \in 1..MaxPrec
    /\ HeckeData \in UpDataSets
    /\ value \in [1..NumIdx -> SeedDists]
    /\ upc = "idle"
    /\ improves = 0
    /\ h2 = ZeroForm
    /\ ii = 0 /\ current_val = 0 /\ old_val = 0 /\ init_val = 0
    /\ Tf = ZeroForm
    /\ upArg = NoCall
    /\ lifted = NoLift

spaceVars == <<HeckeData, n, prec>>

(***************************************************************************)
(* A call MMM._apply_Up_operator(self, scale) on the form.                 *)
(***************************************************************************)
ApplyUp ==
    /\ upc = "idle"
    /\ \E scale \in BOOLEAN :
         /\ Tf' = apply_Up_operator(value, scale)
         /\ upArg' = [f |-> value, scale |-> scale, called |-> TRUE]
    /\ UNCHANGED <<auxVars, liftVars, spaceVars, value, upc, improves, h2, ii,
                   current_val, old_val, init_val, lifted>>

(***************************************************************************)
(* improve (pautomorphicform.py 1686-1703).                                *)
(***************************************************************************)
\* mutant: the loop makes one pass only
ImproveGuardOnce == current_val > old_val /\ ii < 1

\* mutant: the loop also stops after 2 * prec passes
ImproveGuardCapped == current_val > old_val /\ ii < 2 * prec

\* mutant: a pass is also made when delta has not changed
ImproveGuardWeak == current_val >= old_val

\* the condition of the while loop, line 1693
ImproveGuard == current_val > old_val

ImproveStart ==
    /\ upc = "idle"
    /\ improves < MaxImproves
    /\ improves' = improves + 1
    /\ h2' = apply_Up_operator(value, TRUE)
    /\ ii' = 0
    /\ current_val' = 0
    /\ old_val' = -Infinity
    /\ init_val' = FormValuation(value)
    /\ upc' = "improve_loop"
    /\ lifted' = IF improves = 0 /\ IsNaiveForm(value)
                 THEN [f |-> Classical(value), F |-> <<>>]
                 ELSE lifted
    /\ UNCHANGED <<auxVars, liftVars, spaceVars, value, Tf, upArg>>

ImprovePass ==
    /\ upc = "improve_loop"
    /\ ImproveGuard
    /\ \E newh2 \in {apply_Up_operator(h2, TRUE)} :
       \E v \in {FormValuation(FormSub(newh2, h2))} :
           /\ old_val' = current_val
           /\ ii' = ii + 1
           /\ value' = h2
           /\ h2' = newh2
           /\ IF v = Infinity /\ init_val = Infinity
              THEN /\ upc' = "raised"
                   /\ current_val' = current_val
              ELSE /\ current_val' = ExtSub(v, init_val)
                   /\ upc' = IF ExtSub(v, init_val) = Infinity
                             THEN "improve_end" ELSE "improve_loop"
    /\ UNCHANGED <<auxVars, liftVars, spaceVars, improves, init_val, Tf, upArg,
                   lifted>>

ImproveLoopExit ==
    /\ upc = "improve_loop"
    /\ ~ImproveGuard
    /\ upc' = "improve_end"
    /\ UNCHANGED <<auxVars, liftVars, spaceVars, improves, value, h2, ii,
                   current_val, old_val, init_val, Tf, upArg, lifted>>

ImproveFinish ==
    /\ upc = "improve_end"
    /\ value' = h2
    /\ upc' = "idle"
    /\ lifted' = IF improves = 1 /\ lifted.f # <<>>
                 THEN [lifted EXCEPT !.F = h2]
                 ELSE lifted
    /\ UNCHANGED <<auxVars, liftVars, spaceVars, improves, h2, ii, current_val,
                   old_val, init_val, Tf, upArg>>

(***************************************************************************)
(* pAutomorphicFormElement.coleman (pautomorphicform.py 1958-2077).        *)
(***************************************************************************)
\* the values of the argument delta (the default is -1)
Deltas == (-2)..MaxDelta
Methods == {"moments", "riemann_sum", "other"}
ErrMult == "Need to figure out how to implement the multiplicative part."

\* no coleman() call is in progress
NoColeman ==
    [pc |-> "idle", mult |-> FALSE, delta |-> -1, method |-> "moments",
     E |-> 0, given |-> FALSE, ii |-> 0, value |-> 0, value_exp |-> 0,
     err |-> "", log |-> <<>>]

\* mutant: the multiplicative version is refused only for delta > 0
MultRefusedPositive(mult, delta) == mult /\ delta > 0

\* line 2019: mult and delta >= 0
MultRefused(mult, delta) == mult /\ delta >= 0

\* the call: E is either given (a list of given length) or None
ColemanCall ==
    /\ col.pc = "idle"
    /\ \E mult \in BOOLEAN, delta \in Deltas, method \in Methods,
          given \in BOOLEAN, balls \in 0..MaxBalls :
          col' = [NoColeman EXCEPT !.pc = "check", !.mult = mult,
                                   !.delta = delta, !.method = method,
                                   !.given = given,
                                   !.E = IF given THEN balls ELSE 0]
    /\ UNCHANGED <<liftVars, upVars, hc, res, ms, dv, sg>>

\* lines 2019-2020
ColemanCheck ==
    /\ col.pc = "check"
    /\ IF MultRefused(col.mult, col.delta)
       THEN col' = [col EXCEPT !.pc = "raised", !.err = ErrMult]
       ELSE col' = [col EXCEPT !.pc = "cover"]
    /\ UNCHANGED <<liftVars, upVars, hc, res, ms, dv, sg>>

\* lines 2027-2032: the covering is computed when E is None; value = 0,
\* ii = 0, value_exp = 1
ColemanCover ==
    /\ col.pc = "cover"
    /\ \E balls \in 0..MaxBalls :
          col' = [col EXCEPT
                    !.pc = IF col.method = "other" THEN "print" ELSE "loop",
                    !.E = IF col.given THEN col.E ELSE balls,
                    !.value = 0, !.ii = 0, !.value_exp = 1,
                    !.log = IF col.given THEN col.log
                            ELSE Append(col.log, "find_covering")]
          /\ (col.given => balls = 0)
    /\ UNCHANGED <<liftVars, upVars, hc, res, ms, dv, sg>>

\* lines 2035-2044 and 2048-2070: one pass of "for e in E"; value counts the
\* terms added, value_exp the factors multiplied in
ColemanAccumulate ==
    /\ col.pc = "loop"
    /\ col.ii < col.E
    /\ col' = [col EXCEPT
                 !.ii = col.ii + 1,
                 !.value = col.value + 1,
                 !.value_exp = IF col.mult THEN col.value_exp + 1
                               ELSE col.value_exp,
                 !.log = col.log \o
                         (IF col.method = "moments" /\ col.delta >= 0
                          THEN <<"twist">> ELSE <<>>) \o
                         <<"evaluate", "add">> \o
                         (IF col.mult THEN <<"multiply">> ELSE <<>>)]
    /\ UNCHANGED <<liftVars, upVars, hc, res, ms, dv, sg>>

\* lines 2072-2077
ColemanReturn ==
    /\ \/ col.pc = "loop" /\ col.ii >= col.E
       \/ col.pc = "print"
    /\ col' = [col EXCEPT !.pc = "returned"]
    /\ UNCHANGED <<liftVars, upVars, hc, res, ms, dv, sg>>

IdleCol == col = NoColeman

NextCol ==
    \/ ColemanCall
    \/ ColemanCheck
    \/ ColemanCover
    \/ ColemanAccumulate
    \/ ColemanReturn

(***************************************************************************)
(* The accumulation loops of HarmonicCocycles.__apply_atkin_lehner         *)
(* (pautomorphicform.py 1094-1111), __apply_hecke_operator (1136-1158) and *)
(* pAutomorphicForms._apply_Up_operator (2406-2426).  Values are scalars   *)
(* and a matrix acts on a value by multiplication with an integer.         *)
(***************************************************************************)
OpKinds == {"atkin_lehner", "hecke", "Up"}
ErrIndex == "IndexError: list index out of range"

\* lst[i] for a Python list and a Python index i: indices -len..-1 count
\* from the end, anything else outside 0..len-1 raises IndexError
PyIndex(lst, i) ==
    IF 0 <= i /\ i < Len(lst) THEN [ok |-> TRUE, v |-> lst[i + 1]]
    ELSE IF -Len(lst) <= i /\ i < 0
         THEN [ok |-> TRUE, v |-> lst[Len(lst) + i + 1]]
         ELSE [ok |-> FALSE, v |-> 0]

\* mutant: the value of the opposite half is not negated
SourceValueNoSign(F, label, nE) ==
    IF label < nE THEN PyIndex(F, label)
    ELSE PyIndex(F, label - nE)

\* lines 1103-1107 and 1151-1155: the value read for the label t.label
SourceValue(F, label, nE) ==
    IF label < nE THEN PyIndex(F, label)
    ELSE [ok |-> PyIndex(F, label - nE).ok, v |-> -PyIndex(F, label - nE).v]

\* line 2418: f._value[u.label]
UpSourceValue(F, label) == PyIndex(F, label)

\* the operands: the value at edge j is j or j * j + 1
HcOperands(nE) == { [j \in 1..nE |-> j], [j \in 1..nE |-> j * j + 1] }

\* the double-coset data: np pieces; piece d sends the edge jj to the label
\* jj + sh * d (cyclically), in the opposite half for odd d when opp = 1,
\* and acts by the integer d + 1; fix = 1 replaces the label of edge 0 in
\* the piece bd by bl
HcDataSets(nE, maxp, top) ==
    { [d \in 1..np |->
         [jj \in 1..nE |->
            [label |-> IF fix = 1 /\ d = bd /\ jj = 1 THEN bl
                       ELSE ((jj - 1 + sh * d) % nE)
                            + (IF opp = 1 /\ d % 2 = 1 THEN nE ELSE 0),
             act |-> d + 1]]]
      : np \in 1..maxp, sh \in 0..1, opp \in 0..top, fix \in 0..1,
        bd \in 1..maxp, bl \in (-nE - 1)..(2 * nE) }

NoOp ==
    [pc |-> "idle", kind |-> "", nE |-> 0, F |-> <<>>, data |-> <<>>,
     l |-> 0, k |-> 0, level |-> 0,
     ii |-> 0, jj |-> 0, tmp |-> <<>>, terms |-> <<>>, out |-> <<>>,
     den |-> 0, err |-> "", p |-> 0, eq |-> "", val |-> 0]

\* lines 1139-1142: the factor of the Hecke operator, as numerator and
\* denominator
HeckeFactorNum(l, wt) == Pow(l, (wt - 2) \div 2)
HeckeFactorDen(l, level) == IF level % l = 0 THEN l + 1 ELSE 1

\* the call of an operator on f: tmp = [U(0) for jj in range(nE)]
OpCall ==
    /\ hc.pc = "idle"
    /\ \E kind \in OpKinds, nE \in 1..MaxEdges, l \in {2, 3}, wt \in {2, 4},
          level \in {3, 6} :
       \E F \in HcOperands(nE),
          data \in HcDataSets(nE, IF kind = "atkin_lehner" THEN 1
                                  ELSE MaxPieces,
                              IF kind = "Up" THEN 0 ELSE 1) :
          hc' = [NoOp EXCEPT !.pc = "loop", !.kind = kind, !.nE = nE,
                             !.F = F, !.data = data,
                             !.l = l, !.k = wt, !.level = level,
                             !.ii = 1, !.jj = 1,
                             !.tmp = [j \in 1..nE |-> 0],
                             !.terms = [j \in 1..nE |-> 0]]
    /\ UNCHANGED <<liftVars, upVars, col, res, ms, dv, sg>>

\* one pass of the inner loop body: one term is added to tmp[jj], or the
\* list lookup raises
OpTerm ==
    /\ hc.pc = "loop"
    /\ hc.ii <= Len(hc.data)
    /\ LET t == hc.data[hc.ii][hc.jj]
           src == IF hc.kind = "Up" THEN UpSourceValue(hc.F, t.label)
                  ELSE SourceValue(hc.F, t.label, hc.nE)
           last == hc.jj = hc.nE
       IN  IF src.ok
           THEN hc' = [hc EXCEPT
                         !.tmp[hc.jj] = @ + t.act * src.v,
                         !.terms[hc.jj] = @ + 1,
                         !.jj = IF last THEN 1 ELSE hc.jj + 1,
                         !.ii = IF last THEN hc.ii + 1 ELSE hc.ii]
           ELSE hc' = [hc EXCEPT !.pc = "raised", !.err = ErrIndex]
    /\ UNCHANGED <<liftVars, upVars, col, res, ms, dv, sg>>

\* lines 1111, 1158, 2421-2426: the new element is built and returned
OpReturn ==
    /\ hc.pc = "loop"
    /\ hc.ii > Len(hc.data)
    /\ hc' = [hc EXCEPT
                !.pc = "returned",
                !.out = IF hc.kind = "hecke"
                        THEN [j \in 1..hc.nE |->
                                 HeckeFactorNum(hc.l, hc.k) * hc.tmp[j]]
                        ELSE hc.tmp,
                !.den = IF hc.kind = "hecke"
                        THEN HeckeFactorDen(hc.l, hc.level) ELSE 1]
    /\ UNCHANGED <<liftVars, upVars, col, res, ms, dv, sg>>

\* the outcomes of comparing a value with the Python list tmp of zeros (line
\* 305): the comparison is False for every value, or True for the zero value
ListEqSemantics == {"never", "zero"}

\* line 305: self._F[e] == tmp
EqualsZeroList(v, eq) == eq = "zero" /\ v = 0

\* lines 304-305: HarmonicCocycleElement.__nonzero__
CocycleNonzero(F, eq) == \E e \in 1..Len(F) : EqualsZeroList(F[e], eq)

\* Element.is_zero: not self
CocycleIsZero(F, eq) == ~CocycleNonzero(F, eq)

\* lines 329-332: HarmonicCocycleElement.valuation
CocycleValuation(F, eq, pp) ==
    IF CocycleIsZero(F, eq) THEN Infinity
    ELSE SetMin({valuation(F[e], pp) : e \in 1..Len(F)})

\* a call of valuation() on a cocycle with values 0, 1 or p
ValuationCall ==
    /\ hc.pc = "idle"
    /\ \E nE \in 1..MaxEdges, pp \in {2, 3}, eq \in ListEqSemantics :
       \E F \in [1..nE -> {0, 1, pp}] :
          hc' = [NoOp EXCEPT !.pc = "valued", !.kind = "valuation",
                             !.nE = nE, !.F = F, !.p = pp, !.eq = eq,
                             !.val = CocycleValuation(F, eq, pp)]
    /\ UNCHANGED <<liftVars, upVars, col, res, ms, dv, sg>>

\* a call of bool() on a cocycle with values 0, 1 or p
NonzeroCall ==
    /\ hc.pc = "idle"
    /\ \E nE \in 1..MaxEdges, pp \in {2, 3}, eq \in ListEqSemantics :
       \E F \in [1..nE -> {0, 1, pp}] :
          hc' = [NoOp EXCEPT !.pc = "tested", !.kind = "nonzero",
                             !.nE = nE, !.F = F, !.p = pp, !.eq = eq,
                             !.val = CocycleNonzero(F, eq)]
    /\ UNCHANGED <<liftVars, upVars, col, res, ms, dv, sg>>

IdleHc == hc = NoOp

NextHc ==
    \/ OpCall
    \/ OpTerm
    \/ OpReturn
    \/ ValuationCall
    \/ NonzeroCall

(***************************************************************************)
(* Arithmetic and evaluation of p-adic automorphic forms: _add_ (1457-1478),*)
(* _sub_ (1480-1503), evaluate (1529-1555), _rmul_ (1557-1573).  Each      *)
(* returns a new object; integrate and coleman read the form through       *)
(* evaluate only.                                                          *)
(***************************************************************************)
NoRes == [op |-> "", val |-> <<>>]

\* the forms available as second operand: the form itself and the form last
\* returned by _apply_Up_operator
Operands == {value, Tf}

\* lines 1477-1478
FormAdd ==
    /\ upc = "idle"
    /\ \E g \in Operands :
          res' = [op |-> "add",
                  val |-> [e \in 1..NumIdx |-> DistAdd(value[e], g[e])]]
    /\ UNCHANGED <<liftVars, upVars, col, hc, ms, dv, sg>>

\* lines 1502-1503
FormSubtract ==
    /\ upc = "idle"
    /\ \E g \in Operands : res' = [op |-> "sub", val |-> FormSub(value, g)]
    /\ UNCHANGED <<liftVars, upVars, col, hc, ms, dv, sg>>

\* mutant: the scalar multiple is stored into the form itself
FormRmulInPlace ==
    /\ upc = "idle"
    /\ res' = [op |-> "rmul",
               val |-> [e \in 1..NumIdx |-> DistScale(p, value[e])]]
    /\ value' = [e \in 1..NumIdx |-> DistScale(p, value[e])]
    /\ UNCHANGED <<liftVars, spaceVars, upc, improves, h2, ii, current_val,
                   old_val, init_val, Tf, upArg, lifted, col, hc, ms, dv, sg>>

\* line 1573, with the scalar a = p
FormRmul ==
    /\ upc = "idle"
    /\ res' = [op |-> "rmul",
               val |-> [e \in 1..NumIdx |-> DistScale(p, value[e])]]
    /\ UNCHANGED <<liftVars, upVars, col, hc, ms, dv, sg>>

\* lines 1551-1554: the value at the index u.label acted on by the matrix of
\* the double-coset reduction of e1, here [[p, 1], [0, 1]]
FormEvaluate ==
    /\ upc = "idle"
    /\ \E label \in 1..NumIdx :
          res' = [op |-> "evaluate",
                  val |-> r_act_by(value[label], [a |-> 1, b |-> p])]
    /\ UNCHANGED <<liftVars, upVars, col, hc, ms, dv, sg>>

\* _apply_Up_operator called on the form with all three arguments
FormApplyUp ==
    /\ upc = "idle"
    /\ \E scale \in BOOLEAN, fix \in BOOLEAN :
          res' = [op |-> "Up", val |-> apply_Up_operator_kw(value, scale, fix),
                  f |-> value, scale |-> scale, fix |-> fix]
    /\ UNCHANGED <<liftVars, upVars, col, hc, ms, dv, sg>>

IdleRes == res = NoRes

(***************************************************************************)
(* PSModularSymbolElement: _get_prime, plus_part, minus_part and           *)
(* Tq_eigenvalue (modsym.py).  A symbol is the tuple of its values on the  *)
(* generators; a value is a tuple of k+1 integer moments.                  *)
(***************************************************************************)
\* Python's None among integers; ZZ(None) is 0
None == -1
ZZ(x) == IF x = None THEN 0 ELSE x
\* Python truth of an integer or None, and the value of "a or b"
Truthy(x) == x # None /\ x # 0
PyOr(a, b) == IF Truthy(a) THEN a ELSE b

ErrNoPrime == "you must specify a prime"
ErrInconsistent == "inconsistent prime"
ErrNotScalar == "not a scalar multiple"
ErrSelfZero == "self is zero"

\* the primes of parents and arguments
SymPrimes == {2, 3}
PrimeArgs == {None} \cup SymPrimes

\* alpha: not given, given with a parent without prime(), or given p-adic
NoAlpha == [given |-> FALSE, hasprime |-> FALSE, prime |-> None]
AlphaArgs ==
    {NoAlpha, [given |-> TRUE, hasprime |-> FALSE, prime |-> None]}
    \cup {[given |-> TRUE, hasprime |-> TRUE, prime |-> r] : r \in SymPrimes}

\* line 278
AlphaPrime(al) ==
    IF al.given /\ al.hasprime THEN PyOr(al.prime, None) ELSE None

\* mutant: only the parent's prime is compared with the prime chosen
InconsistentPrimeParentOnly(pr, pp, ppp) == Truthy(pp) /\ pr # pp

\* line 284
InconsistentPrime(pr, pp, ppp) ==
    (Truthy(pp) /\ pr # pp) \/ (Truthy(ppp) /\ pr # ppp)

\* _get_prime, lines 277-285: the prime returned or the ValueError raised
get_prime(parg, pp, al, allow_none) ==
    LET ppp == AlphaPrime(al)
        pr == PyOr(PyOr(ZZ(parg), pp), ppp)
    IN  IF ~Truthy(pr)
        THEN IF ~allow_none THEN [err |-> ErrNoPrime, val |-> None]
             ELSE [err |-> "", val |-> pr]
        ELSE IF InconsistentPrime(pr, pp, ppp)
             THEN [err |-> ErrInconsistent, val |-> None]
             ELSE [err |-> "", val |-> pr]

NoRet == [err |-> "", val |-> None]

\* the generators of the source and the moments of a value
Gens == 1..MaxGens
Moments == 1..(MaxWeight + 1)

SymZeroDist == [i \in Moments |-> 0]
\* the values a symbol takes on a generator
SymSeeds ==
    { SymZeroDist,
      [i \in Moments |-> IF i = 1 THEN 1 ELSE 0],
      [i \in Moments |-> 1] }
\* the values the Hecke image takes on a generator
HeckeSeeds == SymSeeds \cup {[i \in Moments |-> IF i = 1 THEN 2 ELSE 0]}
Symbols == [Gens -> SymSeeds]
HeckeImages == [Gens -> HeckeSeeds]
\* the eigenvalues find_scalar returns
Scalars == 0..2

\* _add_, _sub_, _rmul_ (lines 177, 228, 211): the maps are combined value
\* by value
SymAdd(f, g) == [e \in Gens |-> [i \in Moments |-> f[e][i] + g[e][i]]]
SymSub(f, g) == [e \in Gens |-> [i \in Moments |-> f[e][i] - g[e][i]]]
SymScale(c, f) == [e \in Gens |-> [i \in Moments |-> c * f[e][i]]]

\* self * S0N(minusproj): the matrix [1,0,0,-1] reverses the generators and
\* multiplies the moment of degree j by (-1)^j
MinusProjAct(f) ==
    [e \in Gens |->
        [i \in Moments |->
            (IF i % 2 = 1 THEN 1 ELSE -1) * f[MaxGens + 1 - e][i]]]

\* line 307
plus_part(f) == SymAdd(f, MinusProjAct(f))

\* mutant: the image under the matrix is added, as in plus_part
MinusPartAdded(f) == SymAdd(f, MinusProjAct(f))

\* line 329
minus_part(f) == SymSub(f, MinusProjAct(f))

\* Dist.is_zero(p, M): exactly zero when no precision is given, else moment
\* j vanishes modulo p^(M-j)
DistIsZero(v, pe, MM) ==
    IF pe = None \/ MM = None THEN v = SymZeroDist
    ELSE \A i \in Moments : valuation(v[i], pe) >= MM - (i - 1)

\* Dist.find_scalar(other, p, M, check): the scalars c with other = c * self
\* to the precision asked for
FindScalar(v, w, pe, MM) ==
    { c \in Scalars :
        DistIsZero([i \in Moments |-> w[i] - c * v[i]], pe, MM) }

\* valuation, lines 423-424, for the prime pr
SymValuation(f, pr) ==
    SetMin({valuation(f[e][i], pr) : e \in Gens, i \in Moments})

\* mutant: one digit of precision less is asked of the difference
TqCheckFailsLate(v, MM) == v < MM - 1

\* line 556
TqCheckFails(v, MM) == v < MM

NoSym ==
    [pc |-> "idle", op |-> "none",
     parg |-> None, pp |-> None, alpha |-> NoAlpha, allow_none |-> FALSE,
     self |-> <<>>, qhecke |-> <<>>, p |-> None, M |-> None, check |-> FALSE,
     i |-> 0, aq |-> None, plus |-> <<>>, minus |-> <<>>, ret |-> NoRet,
     eigen |-> FALSE]

\* a call of _get_prime
GetPrimeCall ==
    /\ ms = NoSym
    /\ \E parg \in PrimeArgs, pp \in PrimeArgs, al \in AlphaArgs,
          allow_none \in BOOLEAN :
          ms' = [NoSym EXCEPT !.pc = "done", !.op = "get_prime",
                              !.parg = parg, !.pp = pp, !.alpha = al,
                              !.allow_none = allow_none,
                              !.ret = get_prime(parg, pp, al, allow_none)]
    /\ UNCHANGED <<liftVars, upVars, col, hc, res, dv, sg>>

\* plus_part and minus_part of one symbol
PartsCall ==
    /\ ms = NoSym
    /\ \E f \in HeckeImages :
          ms' = [NoSym EXCEPT !.pc = "done", !.op = "parts", !.self = f,
                              !.plus = plus_part(f), !.minus = minus_part(f)]
    /\ UNCHANGED <<liftVars, upVars, col, hc, res, dv, sg>>

\* Tq_eigenvalue, lines 533-538: qhecke = self.hecke(q); p defaults to the
\* prime of the parent; i = 0
TqCall ==
    /\ ms = NoSym
    /\ \E f \in Symbols, h \in HeckeImages, parg \in PrimeArgs,
          pp \in PrimeArgs, MM \in {None} \cup 1..MaxPrec, chk \in BOOLEAN :
          ms' = [NoSym EXCEPT !.pc = "scan", !.op = "Tq", !.self = f,
                              !.qhecke = h, !.parg = parg, !.pp = pp,
                              !.p = IF parg = None THEN pp ELSE parg,
                              !.M = MM, !.check = chk, !.i = 1]
    /\ UNCHANGED <<liftVars, upVars, col, hc, res, dv, sg>>

\* lines 540-547: one pass of the while loop over the generators
TqScan ==
    /\ ms.pc = "scan"
    /\ DistIsZero(ms.self[ms.i], ms.p, ms.M)
    /\ ms' = IF ~DistIsZero(ms.qhecke[ms.i], ms.p, ms.M)
             THEN [ms EXCEPT !.pc = "done", !.ret.err = ErrNotScalar]
             ELSE IF ms.i + 1 > MaxGens
             THEN [ms EXCEPT !.pc = "done", !.i = ms.i + 1,
                             !.ret.err = ErrSelfZero]
             ELSE [ms EXCEPT !.i = ms.i + 1]
    /\ UNCHANGED <<liftVars, upVars, col, hc, res, dv, sg>>

\* line 548, and lines 550 and 558 when check is False
TqFindScalar ==
    /\ ms.pc = "scan"
    /\ ~DistIsZero(ms.self[ms.i], ms.p, ms.M)
    /\ \E cands \in {FindScalar(ms.self[ms.i], ms.qhecke[ms.i], ms.p, ms.M)} :
          IF cands = {}
          THEN ms' = [ms EXCEPT !.pc = "done", !.ret.err = ErrNotScalar]
          ELSE \E c \in cands :
                  ms' = IF ms.check
                        THEN [ms EXCEPT !.pc = "check", !.aq = c]
                        ELSE [ms EXCEPT !.pc = "done", !.aq = c,
                                        !.ret.val = c]
    /\ UNCHANGED <<liftVars, upVars, col, hc, res, dv, sg>>

\* lines 550-558: the check that self is an eigensymbol, and the return
TqCheck ==
    /\ ms.pc = "check"
    /\ ms' =
         IF ms.p = None \/ ms.M = None
         THEN IF \E g \in 2..MaxGens :
                    ms.qhecke[g] # [i \in Moments |-> ms.aq * ms.self[g][i]]
              THEN [ms EXCEPT !.pc = "done", !.ret.err = ErrNotScalar]
              ELSE [ms EXCEPT !.pc = "done", !.ret.val = ms.aq]
         ELSE LET r == get_prime(ms.p, ms.pp, NoAlpha, FALSE)
              IN  IF r.err # ""
                  THEN [ms EXCEPT !.pc = "done", !.ret.err = r.err]
                  ELSE IF TqCheckFails(
                            SymValuation(SymSub(ms.qhecke,
                                                SymScale(ms.aq, ms.self)),
                                         r.val), ms.M)
                  THEN [ms EXCEPT !.pc = "done", !.ret.err = ErrNotScalar]
                  ELSE [ms EXCEPT !.pc = "done", !.ret.val = ms.aq]
    /\ UNCHANGED <<liftVars, upVars, col, hc, res, dv, sg>>

\* mutant: only 'not a scalar multiple' is taken as a failure
IsTqCatchNotScalar(ret) == ret.err # ErrNotScalar

\* is_Tq_eigensymbol, lines 488-492: True when Tq_eigenvalue returned, False
\* when it raised ValueError (every exception of Tq_eigenvalue is one)
is_Tq_eigensymbol(ret) == ret.err = ""

\* is_Tq_eigensymbol(q, p, M) answers from the outcome of Tq_eigenvalue
IsTqReturn ==
    /\ ms.pc = "done" /\ ms.op = "Tq" /\ ms.check
    /\ ms' = [ms EXCEPT !.pc = "answered", !.eigen = is_Tq_eigensymbol(ms.ret)]
    /\ UNCHANGED <<liftVars, upVars, col, hc, res, dv, sg>>

IdleSym == ms = NoSym

NextSym ==
    \/ GetPrimeCall
    \/ PartsCall
    \/ TqCall
    \/ TqScan
    \/ TqFindScalar
    \/ TqCheck
    \/ IsTqReturn

(***************************************************************************)
(* pAutomorphicFormElement.derivative and modular_form with their cache    *)
(* self._cached_values (pautomorphicform.py 1392, 1852, 1947-1954).        *)
(***************************************************************************)
\* the hashable points z the derivative is asked at
Points == {0, 1}
\* order = 0 for modular_form (line 1852), order = 1 for derivative
Orders == {0, 1}

\* x.precision() of a value: the least absolute precision of its moments,
\* which carry relative precision prec up to the cap prec + Slack
DistPrecision(v) ==
    SetMin({IF v[i] = 0 THEN prec + Slack
            ELSE IF valuation(v[i], p) + prec < prec + Slack
                 THEN valuation(v[i], p) + prec
                 ELSE prec + Slack : i \in 1..Depth})

\* precision, line 1455
FormPrecision(F) == SetMin({DistPrecision(F[e]) : e \in 1..NumIdx})

\* F(z, level, method), lines 1929-1943: a sum of integrals, each pairing
\* the values of the form with the expansion of the integrand at z
DerivativeF(F, z, order) ==
    SumSeq([e \in 1..NumIdx |->
              SumSeq([i \in 1..Depth |->
                        F[e][i] * Pow(z + order + 1, i - 1)])]) % Modulus

\* the key of the cache, lines 1948 and 1951
CacheKey(z, order) == <<z, 0, "moments", order, FormPrecision(value)>>

\* line 1951
CacheStore(cache, key, tmp) == cache \cup {<<key, tmp>>}

NoDeriv == [cache |-> {}, calls |-> 0, z |-> 0, order |-> 0, ret |-> 0,
            fresh |-> 0, hit |-> FALSE]

\* derivative(z, level, method, order) with a hashable z, lines 1947-1952
DerivativeCall ==
    /\ upc = "idle"
    /\ dv.calls < MaxDerivCalls
    /\ \E z \in Points, order \in Orders :
       \E key \in {CacheKey(z, order)} :
       \E tmp \in {DerivativeF(value, z, order)} :
          IF \E c \in dv.cache : c[1] = key
          THEN dv' = [dv EXCEPT !.calls = dv.calls + 1, !.z = z,
                                !.order = order, !.fresh = tmp, !.hit = TRUE,
                                !.ret = (CHOOSE c \in dv.cache : c[1] = key)[2]]
          ELSE dv' = [dv EXCEPT !.calls = dv.calls + 1, !.z = z,
                                !.order = order, !.fresh = tmp, !.hit = FALSE,
                                !.ret = tmp,
                                !.cache = CacheStore(dv.cache, key, tmp)]
    /\ UNCHANGED <<liftVars, upVars, col, hc, res, ms, sg>>

IdleDeriv == dv = NoDeriv

(***************************************************************************)
(* The monoid Sigma0(N) over ZZ or QQ (sigma0.py).  A matrix is the tuple  *)
(* <<a, b, c, d>> of its entries, which are rationals.                     *)
(***************************************************************************)
Rings == {"ZZ", "QQ"}
SigmaLevels == 0..MaxSigmaLevel

ErrModulus == "Modulus should be > 0"
ErrLevel == "level does not divide c"
ErrUnit == "a is not a unit"
ErrSingular == "matrix must be nonsingular"

RAdd(r, t) == Rat(r[1] * t[2] + t[1] * r[2], r[2] * t[2])
\* Rational.valuation(p)
RValuation(r, pp) ==
    IF r[1] = 0 THEN Infinity
    ELSE valuation(r[1], pp) - valuation(r[2], pp)

\* self._primes = list(N.factor()), line 119
SigmaPrimes(NN) ==
    { <<pp, valuation(NN, pp)>> :
        pp \in {x \in 2..NN : IsPrime(x) /\ NN % x = 0} }

\* the entries of the matrices handed to the constructor
MatEntries(ring) ==
    {RInt(0), RInt(1), RInt(2)} \cup (IF ring = "QQ" THEN {Rat(1, 2)} ELSE {})
Matrices(ring) ==
    { <<a, b, c, d>> : a \in MatEntries(ring), b \in MatEntries(ring),
                       c \in MatEntries(ring), d \in MatEntries(ring) }

MatDet(x) == RSub(RMul(x[1], x[4]), RMul(x[2], x[3]))
MatMul(x, y) ==
    << RAdd(RMul(x[1], y[1]), RMul(x[2], y[3])),
       RAdd(RMul(x[1], y[2]), RMul(x[2], y[4])),
       RAdd(RMul(x[3], y[1]), RMul(x[4], y[3])),
       RAdd(RMul(x[3], y[2]), RMul(x[4], y[4])) >>

\* Sigma0_factory.create_key, lines 52-54: the error raised ("" when none)
create_key(NN, ring) == IF NN <= 0 THEN ErrModulus ELSE ""

\* _element_constructor_ with check=True, lines 166-175: the error raised
\* ("" when none)
ElementCheck(x, NN) ==
    IF \E pe \in SigmaPrimes(NN) : RValuation(x[3], pe[1]) < pe[2]
    THEN ErrLevel
    ELSE IF \E pe \in SigmaPrimes(NN) : RValuation(x[1], pe[1]) # 0
    THEN ErrUnit
    ELSE IF MatDet(x) = RZero THEN ErrSingular
    ELSE ""

NoSigma == [pc |-> "idle", N |-> 0, ring |-> "ZZ", x |-> <<>>, err |-> "",
            products |-> 0]

\* Sigma0(N, base_ring)
Sigma0Create ==
    /\ sg = NoSigma
    /\ \E NN \in SigmaLevels, ring \in Rings :
          sg' = [NoSigma EXCEPT !.N = NN, !.ring = ring,
                                !.err = create_key(NN, ring),
                                !.pc = IF create_key(NN, ring) = ""
                                       THEN "made" ELSE "raised"]
    /\ UNCHANGED <<liftVars, upVars, col, hc, res, ms, dv>>

\* S(x): _element_constructor_ with check=True
Sigma0Element ==
    /\ sg.pc = "made"
    /\ \E x \in Matrices(sg.ring) :
          sg' = [sg EXCEPT !.x = x, !.err = ElementCheck(x, sg.N),
                           !.pc = IF ElementCheck(x, sg.N) = ""
                                  THEN "element" ELSE "rejected"]
    /\ UNCHANGED <<liftVars, upVars, col, hc, res, ms, dv>>

\* _mul_, line 84: the product with another element of the monoid, built
\* with check=False (lines 176-177)
Sigma0Mul ==
    /\ sg.pc = "element"
    /\ sg.products < MaxProducts
    /\ \E y \in Matrices(sg.ring) :
          /\ ElementCheck(y, sg.N) = ""
          /\ sg' = [sg EXCEPT !.x = MatMul(sg.x, y),
                              !.products = sg.products + 1]
    /\ UNCHANGED <<liftVars, upVars, col, hc, res, ms, dv>>

IdleSigma == sg = NoSigma

NextSigma ==
    \/ Sigma0Create
    \/ Sigma0Element
    \/ Sigma0Mul

(***************************************************************************)
(* The two state machines.                                                 *)
(***************************************************************************)
\* no form is in use while the modular-symbol lift runs
IdleUp ==
    /\ n = 0 /\ prec = 0
    /\ HeckeData = <<>> /\ value = <<>>
    /\ upc = "unused"
    /\ improves = 0
    /\ h2 = <<>>
    /\ ii = 0 /\ current_val = 0 /\ old_val = 0 /\ init_val = 0
    /\ Tf = <<>>
    /\ upArg = <<>>
    /\ lifted = <<>>

\* no modular symbol is in use while the automorphic form is worked on
IdleLift ==
    /\ N = 0 /\ k = 0 /\ M = 0 /\ sys = <<>> /\ alpha = 0
    /\ pc = "unused"
    /\ q = 0 /\ aq = 0 /\ eisenloss = 0
    /\ newM = 0 /\ eplog = 0 /\ s = 0
    /\ Phi = NoSymbol /\ Psi = NoSymbol /\ attempts = 0
    /\ result = NoSymbol
    /\ err = ""
    /\ log = <<>>

IdleAux ==
    IdleCol /\ IdleHc /\ IdleRes /\ IdleSym /\ IdleDeriv /\ IdleSigma

Init == InitLift /\ IdleUp /\ IdleAux

Next ==
    \/ Lift
    \/ FindAqInit
    \/ FindAqNext
    \/ FindAqReturn
    \/ FindExtraprec
    \/ EigenCheck
    \/ NaiveLift
    \/ ApplyHecke
    \/ KillEisenstein
    \/ IterateInit
    \/ LoopPass
    \/ LoopExit

Spec == Init /\ [][Next]_vars

InitUpSpec == InitUp /\ IdleLift /\ IdleAux

NextUp ==
    \/ ApplyUp
    \/ ImproveStart
    \/ ImprovePass
    \/ ImproveLoopExit
    \/ ImproveFinish

SpecUp == InitUpSpec /\ [][NextUp]_vars

InitCol == IdleLift /\ p = 0 /\ IdleUp /\ IdleAux

SpecCol == InitCol /\ [][NextCol]_vars

SpecHc == InitCol /\ [][NextHc]_vars

\* calls on a modular symbol; every other object is idle
InitSym == IdleLift /\ p = 0 /\ IdleUp /\ IdleAux

SpecSym == InitSym /\ [][NextSym]_vars

\* the forms the arithmetic is exercised on: naive lifts and forms with all
\* moments 1, at precision 1
InitFrame ==
    /\ InitUpSpec
    /\ prec = 1
    /\ value \in [1..NumIdx -> {[i \in 1..Depth |-> IF i = 1 THEN 1 ELSE 0],
                                [i \in 1..Depth |-> 1]}]

NextFrame ==
    \/ ApplyUp
    \/ FormAdd
    \/ FormSubtract
    \/ FormRmul
    \/ FormEvaluate
    \/ ImproveStart
    \/ ImprovePass
    \/ ImproveLoopExit
    \/ ImproveFinish

SpecFrame == InitFrame /\ [][NextFrame]_vars

\* _apply_Up_operator called with each value of fix_lowdeg_terms on every
\* form a space starts with
NextFlag == FormApplyUp

SpecFlag == InitUpSpec /\ [][NextFlag]_vars

\* derivative() and improve() called on one form
NextDeriv ==
    \/ DerivativeCall
    \/ ImproveStart
    \/ ImprovePass
    \/ ImproveLoopExit
    \/ ImproveFinish

SpecDeriv == InitFrame /\ [][NextDeriv]_vars

SpecSigma == InitSym /\ [][NextSigma]_vars

(***************************************************************************)
(* Properties of _apply_Up_operator and improve (checked under SpecUp).    *)
(***************************************************************************)
\* the sum over the U_p pieces, scaled, before the low moments are restored
RawUp(f, scale, jj) ==
    DistScale(Factor(scale), SumPieces(f, jj, Len(HeckeData)))

\* C1: whatever the scale flag, the form returned by _apply_Up_operator has,
\* at every index, its moments 0..n equal to those of the form it was
\* applied to.
C1_UpKeepsBottomMoments ==
    upArg.called =>
        \A jj \in 1..NumIdx : \A i \in 1..(n + 1) :
            Tf[jj][i] = upArg.f[jj][i]

\* C1 witness: an unscaled call whose raw sum differs from the input in one
\* of the moments 0..n, so that restoring them changed the result
C1_Witness ==
    /\ upArg.called
    /\ ~upArg.scale
    /\ \E jj \in 1..NumIdx : \E i \in 1..(n + 1) :
          /\ RawUp(upArg.f, upArg.scale, jj)[i] # upArg.f[jj][i]
          /\ Tf[jj][i] = upArg.f[jj][i]

FindAqReturned ==
    \/ pc \in {"find_extraprec", "eigen", "naive", "hecke", "kill", "iterate",
               "loop", "returned"}
    \/ pc = "raised" /\ err \in {ErrNonOrdinary, ErrPrecision}

\* _find_extraprec has returned
ExtraprecDone == FindAqReturned /\ pc # "find_extraprec"

\* the loop of _lift_to_OMS_eigen has been entered
InLoop ==
    \/ pc \in {"loop", "returned"}
    \/ pc = "raised" /\ err = ErrPrecision

\* the Eisenstein loss _find_aq computes at the prime r
LossAt(r) ==
    IF r # p THEN valuation(Tq_eigenvalue(r) - Pow(r, k + 1) - 1, p)
    ELSE valuation(Tq_eigenvalue(r) - 1, p)

\* r is acceptable to _find_aq
GoodAt(r) == IsPrime(r) /\ r # p /\ N % r # 0 /\ LossAt(r) < M

\* C2: the symbol lift returns specialises to the classical symbol that was
\* lifted.
C2_RoundTrip ==
    pc = "returned" => specialize(result) = ClassicalSelf

\* C2 witness: a lift returned after a positive Eisenstein loss and at least
\* one pass of the loop
C2_Witness ==
    /\ pc = "returned"
    /\ eisenloss > 0
    /\ attempts > 0
    /\ specialize(result) = ClassicalSelf

\* C3: the loop of _lift_to_OMS_eigen makes at most 2 * newM passes, after
\* which the lift has returned or raised the precision error.
C3_LoopBounded ==
    /\ attempts <= 2 * newM
    /\ InLoop /\ attempts = 2 * newM => ~ENABLED LoopPass
    /\ pc = "loop" => ENABLED LoopPass \/ ENABLED LoopExit

\* C3 witness: the loop ran its 2 * newM passes and the lift raised
C3_Witness ==
    /\ pc = "raised"
    /\ err = ErrPrecision
    /\ attempts = 2 * newM

\* C4 as stated: the precision error is raised only when the last two
\* iterates disagree
C4_RaisesOnlyOnDisagreement ==
    pc = "raised" /\ err = ErrPrecision => ~SymEq(Phi, Psi)

\* C5: when a_p is not a p-adic unit the lift raises before any naive lift
\* and before any Hecke operator is applied.
C5_NonOrdinaryRaisesFirst ==
    valuation(alpha, p) > 0 =>
        /\ log = <<>>
        /\ pc \in {"lift", "find_aq", "find_aq_loop", "find_extraprec",
                   "eigen", "raised"}
        /\ pc = "eigen" => ENABLED EigenCheck

\* C5 witness: the non-ordinary error has been raised
C5_Witness ==
    /\ pc = "raised"
    /\ err = ErrNonOrdinary
    /\ valuation(alpha, p) > 0
    /\ log = <<>>


\* the operations a run of _lift_to_OMS_eigen performs, in order, when its
\* loop has made a passes: naive lift, one U_p, one Eisenstein kill, the U_p
\* that computes the first Psi, one U_p for each pass
OpsBeforeExit(a) ==
    <<"naive", "Up", "Tq", "Up">> \o [i \in 1..a |-> "Up"]

\* C7: lift does, in this order, the naive lift, one U_p, one Eisenstein
\* kill, the U_p iteration, then the rescaling and the reduction to
\* precision M; T_q is never applied inside the loop and the rescaling only
\* after the loop has ended.
C7_OrderOfSteps ==
    /\ pc = "hecke" => log = <<"naive">>
    /\ pc = "kill" => log = <<"naive", "Up">>
    /\ pc = "iterate" => log = <<"naive", "Up", "Tq">>
    /\ pc = "loop" => log = OpsBeforeExit(attempts)
    /\ pc = "raised" /\ err = ErrPrecision => log = OpsBeforeExit(attempts)
    /\ pc = "returned" =>
          log = OpsBeforeExit(attempts) \o <<"rescale", "reduce">>

\* C7 witness: a lift returned after at least two passes of the loop
C7_Witness ==
    /\ pc = "returned"
    /\ attempts >= 2
    /\ log = OpsBeforeExit(attempts) \o <<"rescale", "reduce">>

\* C8: the working precision is M + eisenloss + eplog + max(0, -s) with
\* eplog >= 0, so that newM >= M + eisenloss >= M.
C8_WorkingPrecision ==
    ExtraprecDone =>
        /\ newM = M + eisenloss + eplog + Max(0, -s)
        /\ eplog >= 0
        /\ newM >= M + eisenloss
        /\ M + eisenloss >= M

\* C8 witness: all three allowances are positive
C8_Witness ==
    /\ ExtraprecDone
    /\ eisenloss > 0
    /\ eplog > 0
    /\ s < 0
    /\ newM = M + eisenloss + eplog - s

\* C9: what _find_aq returns is the smallest prime q < 50 with q # p, q not
\* dividing N and eisenloss = v_p(a_q - q^(k+1) - 1) < M, together with that
\* a_q and that eisenloss.
C9_FindAqResult ==
    FindAqReturned =>
        /\ IsPrime(q)
        /\ q < PrimeBound
        /\ q # p
        /\ N % q # 0
        /\ aq = Tq_eigenvalue(q)
        /\ eisenloss = valuation(aq - Pow(q, k + 1) - 1, p)
        /\ eisenloss < M
        /\ \A r \in 2..(q - 1) : ~GoodAt(r)

\* C9 witness: _find_aq returned a prime after skipping p, a divisor of the
\* level and a prime whose loss was too large
C9_Witness ==
    /\ FindAqReturned
    /\ q > p
    /\ \E r \in 2..(q - 1) : IsPrime(r) /\ N % r = 0 /\ r # p
    /\ \E r \in 2..(q - 1) :
          IsPrime(r) /\ N % r # 0 /\ r # p /\ LossAt(r) >= M
    /\ eisenloss > 0

\* C10: the search for q is over before any lifting starts, and when no prime
\* below 50 is acceptable the lift raises without any naive lift or U_p.
C10_NoPrimeNoLift ==
    /\ log # <<>> => ExtraprecDone
    /\ (M >= 2 /\ \A r \in 2..(PrimeBound - 1) : ~GoodAt(r)) =>
          /\ log = <<>>
          /\ pc \in {"lift", "find_aq", "find_aq_loop", "raised"}
          /\ pc = "raised" => err = ErrEisenstein

\* C10 witness: the search ran past 50 and the lift raised
C10_Witness ==
    /\ pc = "raised"
    /\ err = ErrEisenstein
    /\ q >= PrimeBound
    /\ log = <<>>

(***************************************************************************)
(* Properties of coleman (checked under SpecCol).                          *)
(***************************************************************************)
\* the argument check of coleman() has been passed or has raised
ColemanChecked == col.pc \notin {"idle", "check"}

\* C11 as stated: coleman raises whenever mult is True and delta is nonzero
C11_RaisesOnNonzeroDelta ==
    ColemanChecked /\ col.mult /\ col.delta # 0 => col.pc = "raised"

\* C11: coleman raises NotImplementedError exactly when mult is True and
\* delta >= 0 (with the default delta = -1 the multiplicative version runs),
\* and it raises before any covering is computed or any value accumulated.
C11_RaisesOnMultWithTwist ==
    ColemanChecked =>
        /\ col.pc = "raised" <=> (col.mult /\ col.delta >= 0)
        /\ col.pc = "raised" =>
              /\ col.err = ErrMult
              /\ col.log = <<>>
              /\ col.ii = 0 /\ col.value = 0 /\ col.value_exp = 0

\* C11 witness: the error raised for the twist delta = 0 with no covering
\* computed
C11_Witness ==
    /\ col.pc = "raised"
    /\ col.mult
    /\ col.delta = 0
    /\ ~col.given
    /\ col.log = <<>>

(***************************************************************************)
(* Properties of the operator loops (checked under SpecHc).                *)
(***************************************************************************)
\* the labels a datum may carry: 0..2nE-1 for the cocycle operators,
\* 0..len(list)-1 for U_p
ValidLabel(label) ==
    /\ 0 <= label
    /\ label < (IF hc.kind = "Up" THEN hc.nE ELSE 2 * hc.nE)

AllLabelsValid ==
    \A d \in 1..Len(hc.data) : \A j \in 1..hc.nE :
        ValidLabel(hc.data[d][j].label)

\* the source value for a valid label: f._F[label] in the first half,
\* -f._F[label - nE] in the opposite half
SignedSource(label) ==
    IF label < hc.nE THEN hc.F[label + 1] ELSE -hc.F[label - hc.nE + 1]

\* the sum of the terms of the first d pieces for the output edge j
RECURSIVE AccumulatedUpTo(_, _)
AccumulatedUpTo(j, d) ==
    IF d = 0 THEN 0
    ELSE AccumulatedUpTo(j, d - 1)
         + hc.data[d][j].act * SignedSource(hc.data[d][j].label)

\* the number of pieces whose term for the edge j has been added
PiecesDone(j) == (hc.ii - 1) + (IF j < hc.jj THEN 1 ELSE 0)

\* C12: in the Hecke and Atkin-Lehner operators on harmonic cocycles every
\* piece of the data adds exactly one term to tmp[j] for every edge j: the
\* acted-on value f._F[label] for a label in the first half and the acted-on
\* -f._F[label - nE] for a label in the opposite half.
C12_OneSignedTermPerPiece ==
    hc.kind \in {"atkin_lehner", "hecke"} /\ AllLabelsValid =>
        /\ hc.pc \in {"loop", "returned"}
        /\ \A j \in 1..hc.nE :
              /\ hc.terms[j] = PiecesDone(j)
              /\ hc.tmp[j] = AccumulatedUpTo(j, PiecesDone(j))
        /\ hc.pc = "returned" =>
              \A j \in 1..hc.nE : hc.terms[j] = Len(hc.data)

\* C12 witness: a Hecke operator with two pieces has returned after reading
\* both halves of the index set
C12_Witness ==
    /\ hc.pc = "returned"
    /\ hc.kind = "hecke"
    /\ AllLabelsValid
    /\ Len(hc.data) >= 2
    /\ \E d \in 1..Len(hc.data) : \E j \in 1..hc.nE :
          hc.data[d][j].label >= hc.nE
    /\ \E d \in 1..Len(hc.data) : \E j \in 1..hc.nE :
          hc.data[d][j].label < hc.nE
    /\ \A j \in 1..hc.nE : hc.tmp[j] = AccumulatedUpTo(j, Len(hc.data))

\* C13 as stated: with a label outside the valid range in the data, the
\* operator does not return a form
C13_BadLabelNeverReturns ==
    hc.pc = "returned" => AllLabelsValid

\* C14 as stated, for harmonic cocycles: valuation() is +Infinity for the
\* zero cocycle and otherwise the minimum of the valuations of its values
C14_CocycleValuationIsMin ==
    hc.pc = "valued" =>
        hc.val = IF \A e \in 1..hc.nE : hc.F[e] = 0 THEN Infinity
                 ELSE SetMin({valuation(hc.F[e], hc.p) : e \in 1..hc.nE})

\* C26 as stated: __nonzero__ is True exactly when the cocycle has a nonzero
\* value on some edge, and False for the zero cocycle
C26_NonzeroIffSomeValueNonzero ==
    hc.pc = "tested" => (hc.val <=> \E e \in 1..hc.nE : hc.F[e] # 0)

(***************************************************************************)
(* Properties of pAutomorphicForms.lift (checked under SpecUp).            *)
(***************************************************************************)
\* lift(f) has returned
LiftReturned == lifted.F # <<>>

\* the valuation of the classical cocycle f: the minimum of the valuations
\* of its values
ClassicalValuation(f) ==
    SetMin({valuation(f[e][i], p) : e \in 1..NumIdx, i \in 1..(n + 1)})

\* every piece of the U_p data multiplies the variable by p
ContractingData ==
    \A d \in 1..Len(HeckeData) : \A jj \in 1..NumIdx : HeckeData[d][jj].b = p

C17_OnlyImproveMutates ==
    [][/\ value' # value => upc \in {"improve_loop", "improve_end"}
       /\ res' # res => value' = value /\ Tf' = Tf
       /\ Tf' # Tf => value' = value]_vars

\* C17 witness: a scalar multiple was returned that differs from the form,
\* after the form had been changed by improve()
C17_Witness ==
    /\ res.op = "rmul"
    /\ res.val # value
    /\ res.val = [e \in 1..NumIdx |-> DistScale(p, value[e])]
    /\ improves >= 1
    /\ upArg.called
    /\ upc = "idle"


(***************************************************************************)
(* Tq_eigenvalue, _get_prime, plus_part and minus_part.                    *)
(***************************************************************************)
\* a Tq_eigenvalue(q, p, M, check=True) call with a prime and a precision
\* has ended
TqEnded ==
    /\ ms.op = "Tq" /\ ms.pc = "done"
    /\ ms.check /\ ms.p # None /\ ms.M # None

\* c is a constant with self|T_q - c*self of valuation >= M at the prime
IsEigenvalue(c) ==
    \A e \in Gens, i \in Moments :
        valuation(ms.qhecke[e][i] - c * ms.self[e][i], ms.p) >= ms.M

\* C18: when Tq_eigenvalue(q, p, M, check=True) returns a constant c, the
\* symbol self|T_q - c*self has p-adic valuation >= M; when no such constant
\* exists the call raises ValueError instead of returning.
C18_ReturnedEigenvalueChecked ==
    TqEnded =>
        /\ ms.ret.err = "" => ms.ret.val \in Scalars /\ IsEigenvalue(ms.ret.val)
        /\ (\A c \in Scalars : ~IsEigenvalue(c)) => ms.ret.err # ""

\* a call returned a constant for which T_q is a multiple of the nonzero
\* self only to the precision M, not exactly
C18_Witness ==
    /\ TqEnded /\ ms.ret.err = ""
    /\ ms.self # [e \in Gens |-> SymZeroDist]
    /\ ms.qhecke # SymScale(ms.ret.val, ms.self)

\* the primes available to a _get_prime call
AvailablePrimes ==
    {x \in {ms.parg, ms.pp} : x # None /\ x # 0}
    \cup (IF ms.alpha.given /\ ms.alpha.hasprime THEN {ms.alpha.prime} ELSE {})

\* C19: a prime returned by _get_prime equals every available prime (the
\* argument p, the parent's prime, the prime of alpha's parent); two
\* available primes that differ raise 'inconsistent prime'; with none
\* available the call raises 'you must specify a prime' unless allow_none,
\* and then returns None.
C19_GetPrimeConsistent ==
    ms.op = "get_prime" =>
        /\ (ms.ret.err = "" /\ ms.ret.val # None) =>
              /\ ms.ret.val \in AvailablePrimes
              /\ \A x \in AvailablePrimes : ms.ret.val = x
        /\ Cardinality(AvailablePrimes) >= 2 => ms.ret.err = ErrInconsistent
        /\ Cardinality(AvailablePrimes) = 1 => ms.ret.err = ""
        /\ AvailablePrimes = {} =>
              IF ms.allow_none THEN ms.ret = [err |-> "", val |-> None]
              ELSE ms.ret.err = ErrNoPrime

\* the parent and alpha carry the same prime, the argument gives none, and
\* that prime is returned
C19_Witness ==
    /\ ms.op = "get_prime"
    /\ ms.parg = None /\ ms.pp = 3 /\ ms.alpha.hasprime /\ ms.alpha.prime = 3
    /\ ms.ret = [err |-> "", val |-> 3]

\* C20: for every modular symbol phi, plus_part(phi) + minus_part(phi)
\* equals 2*phi.
C20_PlusMinusSumTwice ==
    ms.op = "parts" => SymAdd(ms.plus, ms.minus) = SymScale(2, ms.self)

\* a symbol that is neither even nor odd: both parts are nonzero
C20_Witness ==
    /\ ms.op = "parts"
    /\ ms.plus # [e \in Gens |-> SymZeroDist]
    /\ ms.minus # [e \in Gens |-> SymZeroDist]
(***************************************************************************)
(* The fix_lowdeg_terms argument (checked under SpecFlag) and the passes   *)
(* of improve() (checked under SpecUp).                                    *)
(***************************************************************************)
\* C25: _apply_Up_operator(f, scale, fix_lowdeg_terms=False) returns the
\* same form as _apply_Up_operator(f, scale, fix_lowdeg_terms=True), for
\* every f and scale: the low-degree overwrite is always applied.
C25_FixLowdegAlwaysApplied ==
    res.op = "Up" =>
        /\ res.val = apply_Up_operator_kw(res.f, res.scale, ~res.fix)
        /\ \A jj \in 1..NumIdx : \A i \in 1..(n + 1) :
              res.val[jj][i] = res.f[jj][i]

\* C25 witness: a call with fix_lowdeg_terms=False in which the overwrite
\* changed the raw sum
C25_Witness ==
    /\ res.op = "Up"
    /\ ~res.fix
    /\ \E jj \in 1..NumIdx : res.val[jj] # RawUp(res.f, res.scale, jj)

\* C23: improve() applies U_p once before its loop and once per pass (h2 is
\* always U_p of the form as it stands); after the first pass a further pass
\* is made only if delta is strictly greater than on the previous pass; the
\* loop is left at once when delta is +Infinity; on return the values of the
\* form are those of the last U_p iterate h2.
C23_ImprovePasses ==
    [][/\ (upc = "improve_loop" /\ ii' = ii + 1 /\ ii >= 1) =>
             (current_val > old_val /\ current_val # Infinity)
       /\ upc' = "improve_loop" => current_val' # Infinity
       /\ upc' \in {"improve_loop", "improve_end"} =>
             h2' = apply_Up_operator(value', TRUE)
       /\ (upc = "improve_end" /\ upc' = "idle") => value' = h2]_vars

\* C23 witness: improve() is about to return after at least two passes, the
\* last of which did not reach delta = +Infinity
C23_Witness ==
    /\ upc = "improve_end"
    /\ ii >= 2
    /\ current_val # Infinity
    /\ h2 # value

(***************************************************************************)
(* The cache of derivative() (checked under SpecDeriv).                    *)
(***************************************************************************)
\* C27 as stated: after any sequence of improve() and derivative() /
\* modular_form() calls, derivative(z, level, method, order) with a hashable
\* z returns the value a fresh computation on the current values gives
C27_CacheNeverStale ==
    dv.calls >= 1 => dv.ret = dv.fresh

(***************************************************************************)
(* The monoid Sigma0(N) (checked under SpecSigma).                         *)
(***************************************************************************)
\* the membership conditions of Sigma0(N): at each prime power p^e exactly
\* dividing N, v_p(c) >= e and v_p(a) = 0; and det # 0
SigmaMember(x, NN) ==
    /\ \A pp \in {y \in 2..NN : IsPrime(y) /\ NN % y = 0} :
          /\ RValuation(x[3], pp) >= valuation(NN, pp)
          /\ RValuation(x[1], pp) = 0
    /\ RSub(RMul(x[1], x[4]), RMul(x[2], x[3])) # RZero

\* C22 as stated: Sigma0(N) over QQ or ZZ accepts N = 0; for N >= 1 a matrix
\* is accepted exactly when a is a unit and c is congruent to 0 at the primes
\* dividing N (and the determinant is nonzero)
C22_LevelZeroAccepted ==
    /\ (sg.pc # "idle" /\ sg.N = 0) => sg.pc # "raised"
    /\ (sg.pc \in {"element", "rejected"} /\ sg.products = 0) =>
          (sg.pc = "element" <=> SigmaMember(sg.x, sg.N))

\* C28 as stated: every element of Sigma0(N), products included, satisfies
\* the membership conditions, over ZZ and over QQ
C28_ClosedUnderProducts ==
    sg.pc = "element" => SigmaMember(sg.x, sg.N)

(***************************************************************************)
(* The return of _lift_to_OMS_eigen (checked under Spec).                  *)
(***************************************************************************)
\* C24: whenever _lift_to_OMS_eigen returns normally, Phi at loop exit is a
\* fixed point of ap^(-1) * U_p at the working precision newM, and the symbol
\* returned is that Phi times the inverse of q^(k+1) + 1 - aq, reduced to M
\* moments.
C24_ReturnsRescaledFixedPoint ==
    [][(pc = "loop" /\ pc' = "returned") =>
          /\ Phi = Psi
          /\ Phi.nmom = newM
          /\ Phi \in {SMul(RInv(alpha), T) : T \in hecke(Phi, p)}
          /\ Phi' = SMul(Rat(1, Pow(q, k + 1) + 1 - aq), Phi)
          /\ result' = Symbol(Phi'.fc, Phi'.ec, Phi'.nv, Phi'.gen, M)]_vars

\* C24 witness: a lift returned after at least one pass of the loop, with a
\* working precision above M and a rescaling factor other than 1
C24_Witness ==
    /\ pc = "returned"
    /\ attempts >= 1
    /\ newM > M
    /\ Pow(q, k + 1) + 1 - aq # 1
    /\ result.nmom = M

(***************************************************************************)
(* The zero symbol (checked under SpecSym).                                *)
(***************************************************************************)
\* Tq_eigenvalue has ended on the zero symbol, whose Hecke image is zero
ZeroSymbolEnded ==
    /\ ms.op = "Tq" /\ ms.pc \in {"done", "answered"}
    /\ ms.self = [e \in Gens |-> SymZeroDist]
    /\ ms.qhecke = [e \in Gens |-> SymZeroDist]

\* C29: for the zero modular symbol Tq_eigenvalue raises ValueError('self is
\* zero') after scanning all generators, and therefore is_Tq_eigensymbol
\* returns False.
C29_ZeroSymbolNotEigen ==
    ZeroSymbolEnded =>
        /\ ms.ret.err = ErrSelfZero
        /\ ms.i = MaxGens + 1
        /\ ms.aq = None
        /\ ms.pc = "answered" => ~ms.eigen

\* C29 witness: is_Tq_eigensymbol has answered False for the zero symbol,
\* asked with a prime and a precision
C29_Witness ==
    /\ ZeroSymbolEnded
    /\ ms.pc = "answered"
    /\ ms.p # None /\ ms.M # None
    /\ ~ms.eigen
    /\ ms.ret.err = ErrSelfZero

=============================================================================
